---- MODULE Spec2Model ----
(***************************************************************************)
(* Model of DANAFramework.danaJob and DANAFramework.run                    *)
(* (src/src/DANA/DANAFramework.py) together with the phase tags of the     *)
(* DANAExceptions classes.                                                  *)
(*                                                                          *)
(* The overridable methods (getDataItems, isProcessed, isValid, ...) have   *)
(* no body in the framework: each call is an action whose outcome (return  *)
(* value, DANAException, other Exception) is chosen by the environment.     *)
(* Opaque values are identified by provenance: the name, epoch and          *)
(* preProcessingResult computed for the i-th fetched item are the number i, *)
(* and 0 stands for a local variable that is not bound yet.                 *)
(***************************************************************************)
EXTENDS Integers, Sequences, FiniteSets, TLC

\* ---- bounds ------------------------------------------------------------
MaxItems == 2
MaxConfigs == 3
MaxCycles == 2

\* ---- ExitCode (DANASettings.Settings, used at lines 320, 322, 348) -------
Success == "Success"
Failed == "Failed"

\* ---- phase tags set by the constructors of the DANAExceptions classes ----
PreProcessingErrorPhase == "PPROC"
CalibrationErrorPhase == "CALIB"
PprocCalibrationErrorPhase == "PPROCCALIB"
CompuCalibrationErrorPhase == "COMPUCALIB"
ResultComputationErrorPhase == "COMPU"
ResultSavingErrorPhaseSameAsComputation == "COMPU"
ResultSavingErrorPhase == "SAVIN"

\* The DANAExceptions a step raises, by the phase they carry (the stages of
\* the onError docstring). The calls made before preProcessDataItem have no
\* class of their own: CalibrationError stands for any DANAException of theirs,
\* all of which line 315 catches alike.
EarlyOps == {"isProcessed", "isValid", "getItemName", "getCurrentEpoch"}
PipelineOps == {"preProcessDataItem", "getCalibrationConfigurations",
                "computeDANAResult", "saveDANAResult"}
Raises(op) ==
    CASE op = "preProcessDataItem" -> {PreProcessingErrorPhase, PprocCalibrationErrorPhase}
      [] op = "getCalibrationConfigurations" -> {CalibrationErrorPhase, CompuCalibrationErrorPhase}
      [] op = "computeDANAResult" -> {ResultComputationErrorPhase}
      [] op = "saveDANAResult" -> {ResultSavingErrorPhase}
      [] OTHER -> {CalibrationErrorPhase}

VARIABLES
    pc,                         \* position of run / danaJob
    lock,                       \* result of getLock: "none", "True" or "False"
    force,                      \* the force argument of run
    cycles,                     \* danaJob cycles started (saturates at MaxCycles)
    rlog,                       \* log / sleep events of the current cycle
    jobForce,                   \* the force parameter of the running danaJob
    fetch,                      \* how the getDataItems call of this cycle ended
    dataItems,                  \* danaJob local: the fetched sequence
    idx,                        \* position of the for loop in dataItems
    itemname,                   \* danaJob local (0 = unbound)
    epoch,                      \* danaJob local (0 = unbound)
    preProcessingResult,        \* danaJob local (0 = unbound)
    calibrationConfigurations,  \* danaJob local: sequence of configurations
    ci,                         \* position of the inner for loop
    err,                        \* phase of the DANAException being handled
    result,                     \* value returned by danaJob
    log,                        \* calls made for the current item, in order
    hist                        \* outcome of every item the loop has left

vars == <<pc, lock, force, cycles, rlog, jobForce, fetch, dataItems, idx, itemname, epoch,
          preProcessingResult, calibrationConfigurations, ci, err, result,
          log, hist>>

runVars == <<lock, force, cycles, rlog, jobForce>>
locals == <<itemname, epoch, preProcessingResult, calibrationConfigurations, ci>>

NoResult == <<"none", "">>
ExcInfo == "exc_info"           \* str(sys.exc_info()): never the empty string

\* One call of an overridable method for the current item, with the
\* arguments the code passes and the way the call ended.
Call(op, nm, ep, ppr, cfg, ph, out) ==
    [op |-> op, item |-> dataItems[idx], name |-> nm, epoch |-> ep,
     ppr |-> ppr, cfg |-> cfg, phase |-> ph, out |-> out]

Min(a, b) == IF a < b THEN a ELSE b

\* What run does besides calling danaJob: self.log.info, self.log.critical,
\* time.sleep
Emit(what, msg) == [ev |-> what, msg |-> msg]

\* The way a call that returns a boolean ended.
Str(b) == IF b THEN "True" ELSE "False"

Init ==
    /\ pc = "start"
    /\ lock = "none"
    /\ force \in BOOLEAN
    /\ cycles = 0
    /\ rlog = <<>>
    /\ jobForce = FALSE
    /\ fetch = "none"
    /\ dataItems = <<>>
    /\ idx = 0
    /\ itemname = 0
    /\ epoch = 0
    /\ preProcessingResult = 0
    /\ calibrationConfigurations = <<>>
    /\ ci = 0
    /\ err = ""
    /\ result = NoResult
    /\ log = <<>>
    /\ hist = <<>>

\* ---- run ---------------------------------------------------------------

\* line 338-339: if not getLock(pidfile, programname): return
LockGateNoReturn(ok) == "cycle_start"
LockGate(ok) == IF ok THEN "cycle_start" ELSE "returned"

GetLock ==
    /\ pc = "start"
    /\ \E ok \in BOOLEAN :
          /\ lock' = Str(ok)
          /\ pc' = LockGate(ok)
    /\ UNCHANGED <<force, cycles, rlog, jobForce, fetch, dataItems, idx, locals, err, result, log, hist>>

\* line 343-346: danaJob(force) when force is true, danaJob() otherwise; the
\* parameter defaults to False (line 255)
DanaJobForceFirstCycleOnly == IF force /\ cycles = 0 THEN force ELSE FALSE
DanaJobForce == IF force THEN force ELSE FALSE

\* line 342-346: log.info, then danaJob is entered with fresh locals
LogStart ==
    /\ pc = "cycle_start"
    /\ jobForce' = DanaJobForce
    /\ rlog' = <<Emit("info", "Running Data ANAlysis")>>
    /\ cycles' = Min(cycles + 1, MaxCycles)
    /\ pc' = "fetch"
    /\ fetch' = "none"
    /\ dataItems' = <<>>
    /\ idx' = 0
    /\ itemname' = 0
    /\ epoch' = 0
    /\ preProcessingResult' = 0
    /\ calibrationConfigurations' = <<>>
    /\ ci' = 0
    /\ err' = ""
    /\ result' = NoResult
    /\ log' = <<>>
    /\ hist' = <<>>
    /\ UNCHANGED <<lock, force>>

\* line 347
LogEnd ==
    /\ pc = "log_end"
    /\ rlog' = Append(rlog, Emit("info", "Done Running Data ANAlysis"))
    /\ pc' = "check"
    /\ UNCHANGED <<lock, force, cycles, jobForce, fetch, dataItems, idx, locals, err, result, log, hist>>

\* line 348-349
CheckExitWithoutCritical ==
    /\ pc = "check"
    /\ pc' = "sleep"
    /\ UNCHANGED <<lock, force, cycles, rlog, jobForce, fetch, dataItems, idx, locals, err,
                   result, log, hist>>
CheckExit ==
    /\ pc = "check"
    /\ rlog' = IF result[1] # Success
               THEN Append(rlog, Emit("critical", "computation cycle failed" \o result[2]))
               ELSE rlog
    /\ pc' = "sleep"
    /\ UNCHANGED <<lock, force, cycles, jobForce, fetch, dataItems, idx, locals, err, result, log, hist>>

\* line 350
SleepSkipped ==
    /\ pc = "sleep"
    /\ pc' = "cycle_start"
    /\ UNCHANGED <<lock, force, cycles, rlog, jobForce, fetch, dataItems, idx, locals, err,
                   result, log, hist>>
Sleep ==
    /\ pc = "sleep"
    /\ rlog' = Append(rlog, Emit("sleep", ""))
    /\ pc' = "cycle_start"
    /\ UNCHANGED <<lock, force, cycles, jobForce, fetch, dataItems, idx, locals, err, result, log, hist>>

\* ---- danaJob: the cycle boundary ------------------------------------------

\* line 322: return ExitCode.Success, ""
CycleSucceededOnlyWithoutErrors ==
    /\ result' = IF \E i \in DOMAIN hist : hist[i] = "error"
                 THEN <<Failed, ExcInfo>> ELSE <<Success, "">>
    /\ pc' = "log_end"
CycleSucceeded ==
    /\ result' = <<Success, "">>
    /\ pc' = "log_end"

\* line 319-320: except Exception, err: return ExitCode.Failed, str(sys.exc_info())
CycleFailedWithoutMessage ==
    /\ result' = <<Failed, "">>
    /\ pc' = "log_end"
CycleFailedReportingSuccess ==
    /\ result' = <<Success, "">>
    /\ pc' = "log_end"
CycleFailed ==
    /\ result' = <<Failed, ExcInfo>>
    /\ pc' = "log_end"

\* line 271: dataItems = self.getDataItems()
\* The call is outside the try of line 275: whatever it raises, a DANAException
\* too, is caught at line 319.
GetDataItems ==
    /\ pc = "fetch"
    /\ \/ /\ \E n \in 0..MaxItems : dataItems' = [i \in 1..n |-> i]
          /\ fetch' = "returned"
          /\ pc' = "loop"
          /\ UNCHANGED result
       \/ /\ fetch' = "Exception"
          /\ CycleFailed
          /\ UNCHANGED dataItems
    /\ UNCHANGED <<runVars, idx, locals, err, log, hist>>

\* line 276: if force or (not self.isProcessed(dataItem))
FirstStepIgnoringForce(f) == "isProcessed"
FirstStep(f) == IF f THEN "isValid" ELSE "isProcessed"

\* line 274: for dataItem in dataItems
ForItem ==
    /\ pc = "loop"
    /\ IF idx < Len(dataItems)
       THEN /\ idx' = idx + 1
            /\ pc' = FirstStep(jobForce)
            /\ log' = <<>>
            /\ UNCHANGED result
       ELSE /\ CycleSucceeded
            /\ UNCHANGED <<idx, log>>
    /\ UNCHANGED <<runVars, fetch, dataItems, locals, err, hist>>

\* ---- danaJob: the per-item boundary ------------------------------------------

\* line 315: except DANAException, err -- every statement of the try block,
\* whichever step it belongs to, leaves it for this one handler.
HandlerSkippingComputeFailures(op) ==
    IF op = "computeDANAResult" THEN "saveDANAResult" ELSE "except"
HandlerMissingSave(op) == IF op = "saveDANAResult" THEN "log_end" ELSE "except"
Handler(op) == "except"

\* A step of the try block raising a DANAException (caught at line 315).
RaisesDANA(op, nm, ep, ppr, cfg) ==
    /\ \E ph \in Raises(op) :
          /\ log' = Append(log, Call(op, nm, ep, ppr, cfg, ph, "DANAException"))
          /\ err' = ph
    /\ pc' = Handler(op)
    /\ UNCHANGED <<locals, result, hist>>

\* A step of the try block raising any other Exception: line 315 does not
\* match, the exception leaves both loops and is caught at line 319.
RaisesOtherCaughtPerItem(op, nm, ep, ppr, cfg) ==
    /\ log' = Append(log, Call(op, nm, ep, ppr, cfg, "", "Exception"))
    /\ pc' = "except"
    /\ UNCHANGED <<locals, err, result, hist>>
RaisesOther(op, nm, ep, ppr, cfg) ==
    /\ log' = Append(log, Call(op, nm, ep, ppr, cfg, "", "Exception"))
    /\ CycleFailed
    /\ UNCHANGED <<locals, err, hist>>

\* The for loop is done with the current item (continue, or the end of the body).
NextItem(outcome) ==
    /\ hist' = Append(hist, outcome)
    /\ pc' = "loop"

\* line 276: self.isProcessed(dataItem), evaluated only when force is false
IsProcessed ==
    /\ pc = "isProcessed"
    /\ \/ \E p \in BOOLEAN :
            /\ log' = Append(log, Call("isProcessed", 0, 0, 0, 0, "", Str(p)))
            /\ IF p THEN NextItem("skipped")
                    ELSE pc' = "isValid" /\ UNCHANGED hist
            /\ UNCHANGED <<locals, err, result>>
       \/ RaisesDANA("isProcessed", 0, 0, 0, 0)
       \/ RaisesOther("isProcessed", 0, 0, 0, 0)
    /\ UNCHANGED <<runVars, fetch, dataItems, idx>>

\* line 280-281: if not self.isValid(dataItem): continue
AfterIsValidIgnoringResult(v) == "getItemName"
AfterIsValid(v) == IF v THEN "getItemName" ELSE "loop"

IsValid ==
    /\ pc = "isValid"
    /\ \/ \E v \in BOOLEAN :
            /\ log' = Append(log, Call("isValid", 0, 0, 0, 0, "", Str(v)))
            /\ IF AfterIsValid(v) = "loop"
               THEN NextItem("invalid")
               ELSE pc' = AfterIsValid(v) /\ UNCHANGED hist
            /\ UNCHANGED <<locals, err, result>>
       \/ RaisesDANA("isValid", 0, 0, 0, 0)
       \/ RaisesOther("isValid", 0, 0, 0, 0)
    /\ UNCHANGED <<runVars, fetch, dataItems, idx>>

\* line 285: itemname = self.getItemName(dataItem)
GetItemNameOnlyWhenUnbound ==
    /\ pc = "getItemName"
    /\ log' = Append(log, Call("getItemName", 0, 0, 0, 0, "", "returned"))
    /\ itemname' = IF itemname = 0 THEN dataItems[idx] ELSE itemname
    /\ pc' = "getCurrentEpoch"
    /\ UNCHANGED <<runVars, fetch, dataItems, idx, epoch, preProcessingResult,
                   calibrationConfigurations, ci, err, result, hist>>
GetItemName ==
    /\ pc = "getItemName"
    /\ \/ /\ log' = Append(log, Call("getItemName", 0, 0, 0, 0, "", "returned"))
          /\ itemname' = dataItems[idx]
          /\ pc' = "getCurrentEpoch"
          /\ UNCHANGED <<epoch, preProcessingResult, calibrationConfigurations, ci,
                         err, result, hist>>
       \/ RaisesDANA("getItemName", 0, 0, 0, 0)
       \/ RaisesOther("getItemName", 0, 0, 0, 0)
    /\ UNCHANGED <<runVars, fetch, dataItems, idx>>

\* line 288: epoch = self.getCurrentEpoch(dataItem)
GetCurrentEpoch ==
    /\ pc = "getCurrentEpoch"
    /\ \/ /\ log' = Append(log, Call("getCurrentEpoch", 0, 0, 0, 0, "", "returned"))
          /\ epoch' = dataItems[idx]
          /\ pc' = "preProcessDataItem"
          /\ UNCHANGED <<itemname, preProcessingResult, calibrationConfigurations, ci,
                         err, result, hist>>
       \/ RaisesDANA("getCurrentEpoch", 0, 0, 0, 0)
       \/ RaisesOther("getCurrentEpoch", 0, 0, 0, 0)
    /\ UNCHANGED <<runVars, fetch, dataItems, idx>>

\* line 292: preProcessingResult = self.preProcessDataItem(itemname, dataItem, epoch)
PreProcessDataItem ==
    /\ pc = "preProcessDataItem"
    /\ \/ /\ log' = Append(log, Call("preProcessDataItem", itemname, epoch, 0, 0, "", "returned"))
          /\ preProcessingResult' = dataItems[idx]
          /\ pc' = "getCalibrationConfigurations"
          /\ UNCHANGED <<itemname, epoch, calibrationConfigurations, ci, err, result, hist>>
       \/ RaisesDANA("preProcessDataItem", itemname, epoch, 0, 0)
       \/ RaisesOther("preProcessDataItem", itemname, epoch, 0, 0)
    /\ UNCHANGED <<runVars, fetch, dataItems, idx>>

\* line 304: for calibrationConfiguration in calibrationConfigurations
\* (k configurations are done; the body runs for the next one, line 313 follows the last)
ForConfigurationSavingOnlyResults(cfgs, k) ==
    IF k < Len(cfgs) THEN "computeDANAResult"
    ELSE IF Len(cfgs) = 0 THEN "loop" ELSE "saveDANAResult"
ForConfiguration(cfgs, k) == IF k < Len(cfgs) THEN "computeDANAResult" ELSE "saveDANAResult"

\* line 299: calibrationConfigurations = self.getCalibrationConfigurations(...)
GetCalibrationConfigurations ==
    /\ pc = "getCalibrationConfigurations"
    /\ \/ \E n \in 0..MaxConfigs :
            /\ log' = Append(log, Call("getCalibrationConfigurations", itemname, epoch,
                                       preProcessingResult, 0, "", "returned"))
            /\ calibrationConfigurations' = [k \in 1..n |-> k]
            /\ ci' = 0
            /\ pc' = ForConfiguration([k \in 1..n |-> k], 0)
            /\ UNCHANGED <<itemname, epoch, preProcessingResult, err, result, hist>>
       \/ RaisesDANA("getCalibrationConfigurations", itemname, epoch, preProcessingResult, 0)
       \/ RaisesOther("getCalibrationConfigurations", itemname, epoch, preProcessingResult, 0)
    /\ UNCHANGED <<runVars, fetch, dataItems, idx>>

\* line 308: self.computeDANAResult(itemname, dataItem, epoch, calibrationConfiguration,
\*                                  preProcessingResult)
ComputeDANAResult ==
    /\ pc = "computeDANAResult"
    /\ LET cfg == calibrationConfigurations[ci + 1] IN
       \/ /\ log' = Append(log, Call("computeDANAResult", itemname, epoch,
                                     preProcessingResult, cfg, "", "returned"))
          /\ ci' = ci + 1
          /\ pc' = ForConfiguration(calibrationConfigurations, ci + 1)
          /\ UNCHANGED <<itemname, epoch, preProcessingResult, calibrationConfigurations,
                         err, result, hist>>
       \/ RaisesDANA("computeDANAResult", itemname, epoch, preProcessingResult, cfg)
       \/ RaisesOther("computeDANAResult", itemname, epoch, preProcessingResult, cfg)
    /\ UNCHANGED <<runVars, fetch, dataItems, idx>>

\* line 313: self.saveDANAResult(itemname, dataItem, epoch)
SaveDANAResult ==
    /\ pc = "saveDANAResult"
    /\ \/ /\ log' = Append(log, Call("saveDANAResult", itemname, epoch, 0, 0, "", "returned"))
          /\ NextItem("saved")
          /\ UNCHANGED <<locals, err, result>>
       \/ RaisesDANA("saveDANAResult", itemname, epoch, 0, 0)
       \/ RaisesOther("saveDANAResult", itemname, epoch, 0, 0)
    /\ UNCHANGED <<runVars, fetch, dataItems, idx>>

\* line 316: the arguments of the onError call are evaluated first; reading a
\* local that no assignment has bound yet raises UnboundLocalError.
ArgumentsBoundWithResult == itemname # 0 /\ epoch # 0 /\ preProcessingResult # 0
ArgumentsBound == itemname # 0 /\ epoch # 0

\* line 317: continue
ContinueWithSaveAfterCompute(ph) ==
    IF ph = ResultComputationErrorPhase THEN "saveDANAResult" ELSE "loop"
Continue(ph) == "loop"

\* The step of the current item that raised the DANAException being handled.
RaisingOp == log[Len(log)].op

\* line 316-317: self.onError(itemname, dataItem, epoch, err, err.phase); continue
\* The call passes five arguments (line 204 declares four): it returns for an
\* override that takes them and raises otherwise, as it does when the body of
\* the override raises. An exception raised inside the handler is not caught at
\* line 315 again: it is caught at line 319, whatever its class.
OnError ==
    /\ pc = "except"
    /\ IF ~ArgumentsBound
       THEN /\ CycleFailed
            /\ UNCHANGED <<log, hist>>
       ELSE \/ /\ log' = Append(log, Call("onError", itemname, epoch, 0, 0, err, "returned"))
               /\ hist' = Append(hist, IF RaisingOp \in EarlyOps THEN "error_early" ELSE "error")
               /\ pc' = Continue(err)
               /\ UNCHANGED result
            \/ /\ log' = Append(log, Call("onError", itemname, epoch, 0, 0, err, "Exception"))
               /\ CycleFailed
               /\ UNCHANGED hist
    /\ UNCHANGED <<runVars, fetch, dataItems, idx, locals, err>>

Next ==
    \/ GetLock
    \/ LogStart
    \/ GetDataItems
    \/ ForItem
    \/ IsProcessed
    \/ IsValid
    \/ GetItemName
    \/ GetCurrentEpoch
    \/ PreProcessDataItem
    \/ GetCalibrationConfigurations
    \/ ComputeDANAResult
    \/ SaveDANAResult
    \/ OnError
    \/ LogEnd
    \/ CheckExit
    \/ Sleep

Spec == Init /\ [][Next]_vars

\* run and danaJob are one sequential thread: a step that can be taken is taken
\* (every call of an overridable method is assumed to end).
FairSpec == Spec /\ WF_vars(Next)

\* ---- vocabulary of the properties -------------------------------------------

Last(q) == q[Len(q)]
CallsOf(op) == {k \in DOMAIN log : log[k].op = op}
OnErrorCalls == CallsOf("onError")

\* danaJob has returned to run
JobOver == fetch # "none" /\ pc \in {"log_end", "check", "sleep", "cycle_start"}

\* danaJob returned before the for loop reached the end of the fetched sequence
LoopLeftEarly == JobOver /\ fetch = "returned" /\ Len(hist) < Len(dataItems)

\* The for loop has left the current item normally: it is at line 274 again,
\* or the item was the last one and danaJob returned at line 322.
ItemLeft ==
    /\ Len(hist) = idx
    /\ \/ pc = "loop"
       \/ JobOver /\ idx = Len(dataItems) /\ result = <<Success, "">>

\* ---- C1 --------------------------------------------------------------------
\* C1: when preProcessDataItem, getCalibrationConfigurations, computeDANAResult
\* or saveDANAResult raises a DANAException for an item, no onError call is
\* made before the handler runs and, once it has run, exactly one onError call
\* was made for that item: the call that follows the failed step, with the item
\* and with the phase the exception carries; when that call returns, the loop
\* has left the item for the next one of the fetched sequence.
C1_OnErrorOncePerFailedStep ==
    \A k \in DOMAIN log :
        (log[k].op \in PipelineOps /\ log[k].out = "DANAException") =>
            /\ log[k].item = dataItems[idx]
            /\ pc = "except" => (OnErrorCalls = {} /\ k = Len(log))
            /\ pc # "except" =>
                  /\ OnErrorCalls = {k + 1}
                  /\ log[k + 1].item = log[k].item
                  /\ log[k + 1].phase = log[k].phase
                  /\ log[k + 1].out = "returned" => (ItemLeft /\ hist[idx] = "error")

C1_Witness ==
    /\ pc = "loop"
    /\ idx < Len(dataItems)
    /\ Len(log) >= 2
    /\ Last(log).op = "onError"
    /\ Last(log).out = "returned"
    /\ log[Len(log) - 1].op = "getCalibrationConfigurations"
    /\ log[Len(log) - 1].out = "DANAException"

\* ---- C2 --------------------------------------------------------------------
\* C2: an isValid call that returns false is the last call made for its item
\* (no getItemName, getCurrentEpoch, preProcessDataItem,
\* getCalibrationConfigurations, computeDANAResult, saveDANAResult or onError
\* follows) and the loop leaves the item; and every preProcessDataItem call is
\* preceded, for the same item, by an isValid call that returned true.
C2_InvalidItemNotProcessed ==
    /\ \A k \in CallsOf("isValid") :
          log[k].out = "False" =>
              /\ k = Len(log)
              /\ ItemLeft
              /\ hist[idx] = "invalid"
    /\ \A k \in DOMAIN log :
          log[k].op \in (PipelineOps \cup {"getItemName", "getCurrentEpoch"}) =>
              \E j \in 1..(k - 1) :
                  /\ log[j].op = "isValid"
                  /\ log[j].out = "True"
                  /\ log[j].item = log[k].item

C2_Witness ==
    /\ pc = "isValid"
    /\ idx = 2
    /\ hist = <<"invalid">>

\* ---- C3 --------------------------------------------------------------------
\* C3 as stated: whatever is raised while an item is processed, the loop still
\* reaches every later item of the fetched sequence before danaJob returns.
C3_NoExceptionEscapesLoop ==
    (JobOver /\ fetch = "returned") => idx = Len(dataItems)

\* C3 amended: danaJob returns before the end of the fetched sequence only when
\* the last call made was ended by an exception that is not a DANAException
\* (a step's, or the onError call's), or by a DANAException raised while
\* itemname or epoch was still unbound; a DANAException of a step whose onError
\* call returned leaves the loop at the next item.
C3_EscapesOnlyPastTheHandler ==
    /\ LoopLeftEarly =>
          /\ Len(log) > 0
          /\ result = <<Failed, ExcInfo>>
          /\ \/ Last(log).out = "Exception"
             \/ Last(log).out = "DANAException" /\ (itemname = 0 \/ epoch = 0)
    /\ \A k \in DOMAIN log :
          (/\ log[k].out = "DANAException"
           /\ k < Len(log)
           /\ log[k + 1].op = "onError"
           /\ log[k + 1].out = "returned") => ItemLeft

C3_Witness ==
    /\ idx = 2
    /\ hist = <<"error">>
    /\ pc = "saveDANAResult"

\* ---- C4 --------------------------------------------------------------------
\* C4: when getDataItems raises, danaJob returns (Failed, message) with a
\* non-empty message and no call at all was made for any item in the cycle.
C4_FetchFailureFailsCycle ==
    fetch = "Exception" =>
        /\ JobOver
        /\ result[1] = Failed
        /\ result[2] # ""
        /\ log = <<>>
        /\ hist = <<>>
        /\ idx = 0

C4_Witness ==
    /\ fetch = "Exception"
    /\ pc = "sleep"
    /\ cycles = 2

\* ---- C5 --------------------------------------------------------------------
\* C5: when computeDANAResult raises a ResultComputationError on the k-th of
\* the N resolved configurations, the computeDANAResult calls made for the item
\* are exactly those for configurations 1..k in order, the first k-1 of them
\* returned, none is made for k+1..N, and once the handler has run exactly one
\* onError call was made for the item, with phase COMPU.
C5_ComputeFailureStopsConfigurations ==
    \A e \in DOMAIN log :
        (log[e].op = "computeDANAResult" /\ log[e].out = "DANAException") =>
            LET k == log[e].cfg IN
            /\ k \in 1..Len(calibrationConfigurations)
            /\ log[e].phase = "COMPU"
            /\ CallsOf("computeDANAResult") = (e - k + 1)..e
            /\ \A j \in 1..(k - 1) :
                  /\ log[e - k + j].cfg = calibrationConfigurations[j]
                  /\ log[e - k + j].out = "returned"
            /\ pc # "except" =>
                  /\ OnErrorCalls = {e + 1}
                  /\ log[e + 1].phase = "COMPU"
                  /\ log[e + 1].item = dataItems[idx]

C5_Witness ==
    /\ pc = "loop"
    /\ Len(calibrationConfigurations) = 3
    /\ \E e \in DOMAIN log :
          /\ log[e].op = "computeDANAResult"
          /\ log[e].out = "DANAException"
          /\ log[e].cfg = 2
    /\ Last(log).op = "onError"

\* ---- C6 --------------------------------------------------------------------
ComputeFailures ==
    {e \in DOMAIN log : log[e].op = "computeDANAResult" /\ log[e].out # "returned"}

\* The loop is done with the current item, normally or not.
ItemOver == pc = "loop" \/ JobOver

\* C6 as stated: once the loop is done with an item whose computeDANAResult
\* failed, exactly one saveDANAResult call was made for the item after the
\* failure.
C6_SaveFollowsComputeFailure ==
    \A e \in ComputeFailures :
        ItemOver => Cardinality({s \in CallsOf("saveDANAResult") : s > e}) = 1

\* C6 amended: for an item whose computeDANAResult fails on some configuration,
\* saveDANAResult is not invoked at all for that item in that cycle.
C6_NoSaveAfterComputeFailure ==
    \A e \in ComputeFailures :
        /\ CallsOf("saveDANAResult") = {}
        /\ pc # "saveDANAResult"

C6_Witness ==
    /\ pc = "loop"
    /\ idx > 0
    /\ Len(hist) = idx
    /\ hist[idx] = "error"
    /\ Len(calibrationConfigurations) = 2
    /\ \E e \in ComputeFailures : log[e].cfg = 1 /\ log[e].out = "DANAException"

\* ---- C7 --------------------------------------------------------------------
\* Every failure of the cycle so far is a DANAException raised by
\* preProcessDataItem, getCalibrationConfigurations, computeDANAResult or
\* saveDANAResult, and every onError call returned.
OnlyPipelineFailures ==
    /\ fetch = "returned"
    /\ \A i \in DOMAIN hist : hist[i] # "error_early"
    /\ \A k \in DOMAIN log :
          /\ log[k].out # "Exception"
          /\ log[k].out = "DANAException" => log[k].op \in PipelineOps

\* C7: a danaJob cycle in which every failure is such a DANAException, with
\* onError returning, went through the whole fetched sequence and returns
\* (Success, ""), however many items failed.
C7_PerItemFailuresDoNotFailCycle ==
    (JobOver /\ OnlyPipelineFailures) =>
        /\ result = <<Success, "">>
        /\ Len(hist) = Len(dataItems)

C7_Witness ==
    /\ pc = "check"
    /\ hist = <<"error", "error">>
    /\ result = <<Success, "">>

\* ---- C8 --------------------------------------------------------------------
\* C8: without force the first call made for an item is isProcessed, and an
\* isProcessed call that returns true is the only call made for the item; so
\* a cycle (the first or a later one) in which isProcessed is true for every
\* item makes no other call and returns Success. With force no isProcessed
\* call is made: the first call made for every item the loop reaches is
\* isValid, and no item is skipped.
C8_SkipCheck ==
    /\ ~force =>
          /\ log # <<>> => log[1].op = "isProcessed"
          /\ \A k \in CallsOf("isProcessed") :
                /\ k = 1
                /\ log[k].out = "True" => (Len(log) = 1 /\ ItemLeft /\ hist[idx] = "skipped")
          /\ (/\ JobOver
              /\ fetch = "returned"
              /\ \A k \in DOMAIN log : log[k].op = "isProcessed" /\ log[k].out = "True"
              /\ \A i \in DOMAIN hist : hist[i] = "skipped") =>
                    /\ result = <<Success, "">>
                    /\ Len(hist) = Len(dataItems)
    /\ force =>
          /\ CallsOf("isProcessed") = {}
          /\ pc # "isProcessed"
          /\ log # <<>> => log[1].op = "isValid"
          /\ \A i \in DOMAIN hist : hist[i] # "skipped"

C8_Witness ==
    /\ ~force
    /\ cycles = 2
    /\ pc = "sleep"
    /\ hist = <<"skipped", "skipped">>
    /\ result = <<Success, "">>

\* ---- C9 --------------------------------------------------------------------
\* C9: when getLock returns false run has returned without a danaJob cycle,
\* a log message or a sleep; danaJob runs only after getLock returned true.
C9_NoLockNoCycle ==
    /\ lock = "False" =>
          /\ pc = "returned"
          /\ cycles = 0
          /\ rlog = <<>>
          /\ fetch = "none"
          /\ log = <<>>
    /\ pc \notin {"start", "returned"} => lock = "True"
    /\ cycles > 0 => lock = "True"

C9_Witness ==
    /\ lock = "False"
    /\ pc = "returned"

\* ---- C10 -------------------------------------------------------------------
\* C10: when saveDANAResult failed with a ResultSavingError, a
\* critical-severity message has been emitted by the time the cycle is logged
\* and checked (line 347-349).
C10_SaveFailureEmitsCritical ==
    (/\ pc = "sleep"
     /\ \E k \in CallsOf("saveDANAResult") :
           log[k].out = "DANAException" /\ log[k].phase = ResultSavingErrorPhase) =>
        \E j \in DOMAIN rlog : rlog[j].ev = "critical"

\* ---- C11 -------------------------------------------------------------------
Criticals == {j \in DOMAIN rlog : rlog[j].ev = "critical"}

\* C11: a Failed result is returned to run, which stays in its loop: after the
\* cycle is logged run has emitted exactly one critical message, made of the
\* cycle's message; it then sleeps and is ready to start the next cycle.
C11_FailedCycleKeepsLoopRunning ==
    result[1] = Failed =>
        /\ pc \in {"log_end", "check", "sleep", "cycle_start"}
        /\ pc \in {"log_end", "check"} => Criticals = {}
        /\ pc = "sleep" =>
              /\ Criticals = {Len(rlog)}
              /\ Last(rlog).msg = "computation cycle failed" \o result[2]
              /\ result[2] # ""
        /\ pc = "cycle_start" =>
              /\ Criticals = {Len(rlog) - 1}
              /\ Last(rlog) = Emit("sleep", "")
              /\ ENABLED LogStart

C11_Witness ==
    /\ pc = "cycle_start"
    /\ result[1] = Failed
    /\ fetch = "returned"
    /\ Last(rlog).ev = "sleep"

\* ---- C12 -------------------------------------------------------------------
InfoStart == Emit("info", "Running Data ANAlysis")
InfoEnd == Emit("info", "Done Running Data ANAlysis")
CriticalIfFailed ==
    IF result[1] # Success
    THEN <<Emit("critical", "computation cycle failed" \o result[2])>>
    ELSE <<>>

\* What run has logged and slept in the current cycle, by its position.
C12_CycleSequence ==
    /\ pc \in {"start", "returned"} => rlog = <<>>
    /\ (pc = "cycle_start" /\ fetch = "none") => rlog = <<>>
    /\ pc \notin {"start", "returned", "cycle_start", "check", "sleep"} =>
          (rlog = <<InfoStart>> /\ (pc # "log_end" => result = NoResult))
    /\ pc = "check" => rlog = <<InfoStart, InfoEnd>>
    /\ pc = "sleep" => rlog = <<InfoStart, InfoEnd>> \o CriticalIfFailed
    /\ (pc = "cycle_start" /\ fetch # "none") =>
          rlog = <<InfoStart, InfoEnd>> \o CriticalIfFailed \o <<Emit("sleep", "")>>
    /\ lock = "True" => ENABLED Next

\* A cycle starts only from the head of the loop, the first one right after
\* the lock was taken and every other one right after the sleep of the
\* previous cycle, whose danaJob has returned.
C12_CycleStart ==
    (pc' = "fetch" /\ pc # "fetch") =>
        /\ pc = "cycle_start"
        /\ rlog' = <<InfoStart>>
        /\ \/ rlog = <<>> /\ cycles = 0
           \/ Last(rlog) = Emit("sleep", "") /\ result # NoResult /\ cycles > 0

\* C12: once the lock is acquired run repeats for ever the sequence info log,
\* one danaJob cycle run to completion, info log, critical log exactly when the
\* result is not Success, sleep; cycles never overlap and the loop never ends.
C12_StrictlySequentialForever ==
    /\ []C12_CycleSequence
    /\ [][C12_CycleStart]_vars
    /\ []<>(lock # "True" \/ pc = "sleep")
    /\ []<>(lock # "True" \/ pc = "fetch")

C12_Witness ==
    /\ pc = "sleep"
    /\ cycles = 2
    /\ rlog = <<InfoStart, InfoEnd>>
    /\ hist = <<"saved", "saved">>

\* ---- C13 -------------------------------------------------------------------
\* C13: what danaJob returns is (Success, "") or (Failed, message) with a
\* non-empty message, whichever way the cycle ended.
C13_ResultIsSuccessOrFailedWithMessage ==
    /\ JobOver =>
          \/ result = <<Success, "">>
          \/ result[1] = Failed /\ result[2] # ""
    /\ ~JobOver => result = NoResult

C13_Witness ==
    /\ pc = "log_end"
    /\ result[1] = Failed
    /\ result[2] # ""
    /\ hist = <<"saved">>
    /\ idx = 2

\* ---- C14 -------------------------------------------------------------------
ReturnedCalls(op) == {k \in CallsOf(op) : log[k].out = "returned"}

\* C14: at most one saveDANAResult call is made for an item; when it is made,
\* the N configurations resolved for the item have been computed by exactly N
\* computeDANAResult calls, one per configuration in iteration order, right
\* before it (none when N = 0). And an item whose configurations were resolved
\* and all computed is not left without that one saveDANAResult call.
C14_OneSaveAfterAllComputations ==
    LET N == Len(calibrationConfigurations) IN
    /\ \A s \in CallsOf("saveDANAResult") :
          /\ CallsOf("saveDANAResult") = {s}
          /\ CallsOf("computeDANAResult") = (s - N)..(s - 1)
          /\ \A j \in 1..N :
                /\ log[s - N - 1 + j].cfg = calibrationConfigurations[j]
                /\ log[s - N - 1 + j].out = "returned"
          /\ s - N - 1 >= 1
          /\ log[s - N - 1].op = "getCalibrationConfigurations"
          /\ log[s - N - 1].out = "returned"
    /\ (/\ ItemOver
        /\ ReturnedCalls("getCalibrationConfigurations") # {}
        /\ Cardinality(ReturnedCalls("computeDANAResult")) = N
        /\ ComputeFailures = {}) => CallsOf("saveDANAResult") # {}
    /\ pc = "saveDANAResult" => (ci = N /\ CallsOf("saveDANAResult") = {})

C14_Witness ==
    /\ pc = "loop"
    /\ Len(calibrationConfigurations) = 3
    /\ Len(hist) = idx
    /\ idx = 2
    /\ hist[idx] = "saved"
    /\ Cardinality(CallsOf("computeDANAResult")) = 3

\* ---- C15 -------------------------------------------------------------------
\* C15: an exception that is not a DANAException, raised by a step of an item,
\* is followed by no call at all (no onError, no step of a later item):
\* danaJob has returned (Failed, message) with a non-empty message, the loop
\* still at that item.
C15_UnclassifiedFailureAbortsCycle ==
    \A k \in DOMAIN log :
        (log[k].out = "Exception" /\ log[k].op # "onError") =>
            /\ k = Len(log)
            /\ OnErrorCalls = {}
            /\ JobOver
            /\ result[1] = Failed
            /\ result[2] # ""
            /\ log[k].item = dataItems[idx]
            /\ Len(hist) = idx - 1

C15_Witness ==
    /\ pc = "sleep"
    /\ Len(dataItems) = 2
    /\ idx = 1
    /\ Last(log).op = "computeDANAResult"
    /\ Last(log).out = "Exception"

\* ---- C16 -------------------------------------------------------------------
\* C16: the itemname and epoch passed to preProcessDataItem,
\* getCalibrationConfigurations, computeDANAResult and saveDANAResult are those
\* getItemName and getCurrentEpoch returned for the item of the call, and the
\* preProcessingResult passed on is the one preProcessDataItem returned for it,
\* whatever happened to the items before.
C16_PipelineArgumentsOfSameItem ==
    \A k \in DOMAIN log :
        log[k].op \in PipelineOps =>
            /\ log[k].item = dataItems[idx]
            /\ log[k].name = log[k].item
            /\ log[k].epoch = log[k].item
            /\ log[k].op \in {"getCalibrationConfigurations", "computeDANAResult"} =>
                  log[k].ppr = log[k].item
            /\ \E n \in ReturnedCalls("getItemName") : n < k
            /\ \E n \in ReturnedCalls("getCurrentEpoch") : n < k

C16_Witness ==
    /\ idx = 2
    /\ hist = <<"error", "saved">>
    /\ pc = "loop"
    /\ Last(log).op = "saveDANAResult"
    /\ Last(log).name = 2
    /\ Last(log).epoch = 2

\* ---- C17 -------------------------------------------------------------------
EnumeratedPhases == {"PPROC_CALIB", "PPROC", "COMPU_CALIB", "COMPU", "SAVE"}
ConstructedPhases ==
    <<PprocCalibrationErrorPhase, PreProcessingErrorPhase, CalibrationErrorPhase,
      CompuCalibrationErrorPhase, ResultComputationErrorPhase, ResultSavingErrorPhase>>

\* The phase handed to onError is the one the exception was raised with.
PhaseUnchanged ==
    /\ pc = "except" => (err = Last(log).phase /\ Last(log).out = "DANAException")
    /\ \A k \in OnErrorCalls :
          /\ k > 1
          /\ log[k - 1].out = "DANAException"
          /\ log[k].phase = log[k - 1].phase

PhasesDistinct ==
    \A i, j \in DOMAIN ConstructedPhases :
        i # j => ConstructedPhases[i] # ConstructedPhases[j]

\* C17 as stated: every phase handed to onError is one of
\* PPROC_CALIB, PPROC, COMPU_CALIB, COMPU, SAVE; the tags of the failure kinds
\* are pairwise distinct and reach onError unchanged.
C17_PhaseInEnumeratedSet ==
    /\ \A k \in OnErrorCalls : log[k].phase \in EnumeratedPhases
    /\ PhasesDistinct
    /\ PhaseUnchanged

\* C17 amended: every phase raised and handed to onError is one of the tags
\* the constructors set, PPROCCALIB, PPROC, CALIB, COMPUCALIB, COMPU, SAVIN;
\* these are pairwise distinct and reach onError unchanged.
C17_PhaseIsConstructedTag ==
    /\ \A k \in DOMAIN log :
          log[k].phase # "" =>
              log[k].phase \in {"PPROCCALIB", "PPROC", "CALIB", "COMPUCALIB", "COMPU", "SAVIN"}
    /\ PhasesDistinct
    /\ PhaseUnchanged

C17_Witness ==
    /\ pc = "loop"
    /\ Len(log) > 1
    /\ Last(log).op = "onError"
    /\ Last(log).phase = "SAVIN"
    /\ log[Len(log) - 1].op = "saveDANAResult"

\* ---- C18 -------------------------------------------------------------------
Rank(op) ==
    CASE op = "isProcessed" -> 1
      [] op = "isValid" -> 2
      [] op = "getItemName" -> 3
      [] op = "getCurrentEpoch" -> 4
      [] op = "preProcessDataItem" -> 5
      [] op = "getCalibrationConfigurations" -> 6
      [] op = "computeDANAResult" -> 7
      [] op = "saveDANAResult" -> 8
      [] OTHER -> 9

\* The call returned and the code goes on to a next step of the same item.
WentOn(c) ==
    CASE c.op = "isProcessed" -> c.out = "False"
      [] c.op = "isValid" -> c.out = "True"
      [] OTHER -> c.out = "returned"

InItem == pc \in (EarlyOps \cup PipelineOps \cup {"except"})

\* C18: the calls made for one item are made in the order isProcessed (only
\* without force), isValid, getItemName, getCurrentEpoch, preProcessDataItem,
\* getCalibrationConfigurations, computeDANAResult (once per configuration),
\* saveDANAResult, each but computeDANAResult at most once, each only after the
\* call before it returned and let the item go on; and an item is started only
\* when the loop has left every item before it.
C18_StepsInFixedOrder ==
    /\ log # <<>> => log[1].op = (IF jobForce THEN "isValid" ELSE "isProcessed")
    /\ \A k \in 1..(Len(log) - 1) :
          log[k + 1].op # "onError" =>
              /\ WentOn(log[k])
              /\ \/ Rank(log[k + 1].op) = Rank(log[k].op) + 1
                 \/ /\ log[k].op = "computeDANAResult"
                    /\ log[k + 1].op = "computeDANAResult"
                    /\ log[k + 1].cfg = log[k].cfg + 1
                 \/ /\ log[k].op = "getCalibrationConfigurations"
                    /\ log[k + 1].op = "saveDANAResult"
                    /\ calibrationConfigurations = <<>>
              /\ log[k + 1].op = "computeDANAResult" =>
                    (log[k].op = "getCalibrationConfigurations" <=> log[k + 1].cfg = 1)
    /\ \A op \in (EarlyOps \cup PipelineOps) \ {"computeDANAResult"} :
          Cardinality(CallsOf(op)) <= 1
    /\ \A k \in DOMAIN log : log[k].item = dataItems[idx]
    /\ InItem => Len(hist) = idx - 1

C18_Witness ==
    /\ pc = "loop"
    /\ ~jobForce
    /\ idx = 2
    /\ Len(log) = 9
    /\ Last(log).op = "saveDANAResult"
    /\ Last(log).out = "returned"

\* ---- C19 -------------------------------------------------------------------
\* C19: when isProcessed, isValid, getItemName or getCurrentEpoch raises a
\* DANAException for an item, then once the handler has run exactly one onError
\* call was made for the item, with the name and the epoch of that item, and
\* when that call returns the loop has left the item for the next one.
C19_EarlyFailureHandledWithOwnNameAndEpoch ==
    \A k \in DOMAIN log :
        (log[k].op \in EarlyOps /\ log[k].out = "DANAException" /\ pc # "except") =>
            /\ OnErrorCalls = {k + 1}
            /\ log[k + 1].name = log[k].item
            /\ log[k + 1].epoch = log[k].item
            /\ log[k + 1].out = "returned" => ItemLeft

\* ---- C20 -------------------------------------------------------------------
\* C20: the force argument of run never changes, and every danaJob cycle, the
\* first and the later ones, runs with it: with force the first call made for
\* an item is isValid, without force it is isProcessed.
C20_ForceInEveryCycle ==
    /\ pc \notin {"start", "returned", "cycle_start"} => jobForce = force
    /\ pc = "isProcessed" => ~force
    /\ log # <<>> => (force <=> log[1].op = "isValid")

C20_ForceFixedForLifeOfLoop ==
    /\ []C20_ForceInEveryCycle
    /\ [][force' = force]_vars

C20_Witness ==
    /\ force
    /\ cycles = 2
    /\ pc = "getItemName"
    /\ Len(rlog) = 1
    /\ log[1].op = "isValid"

====
